---- MODULE Spec2Model ----
\* Run orchestration of evaluate_agent.py: AgentRunner.run and the methods it
\* calls (setup_workspace, configure_agent, start_server_logger,
\* execute_agent/_run_process, stop_server_logger, the post-run script loop and
\* the report), together with the child processes they manage.
EXTENDS Integers, Sequences, FiniteSets, TLC

\* ---------------------------------------------------------------- bounds
MaxLines == 2        \* lines the agent emits in one invocation
MaxScripts == 2      \* generated *.py files are named 1 .. MaxScripts
MaxStops == 3        \* stop_server_logger calls made by the API driver
MaxLogLen == 4       \* lines of a SERVER.LOG handed to the log mining

\* ---------------------------------------------------- program constants
WaitTimeout == 2     \* self.log_process.wait(timeout=2)
OwnEntryPoint == 0   \* the script named evaluate_agent.py, skipped by the loop

\* OpenCodeRunner overrides configure_agent; the other runners (gemini stands
\* for them) differ only in the command line they build.
Agents == {"gemini", "opencode"}
\* The k-th line the agent emits has content k: distinct contents tell the
\* order, the loss and the repetition of lines apart.
LineVals == 1 .. MaxLines
\* Return codes: killed by a signal (negative), clean exit, error exit.
ExitCodes == {0 - 1, 0, 1}
Scripts == OwnEntryPoint .. MaxScripts

VARIABLES
    pc,               \* position of the caller: a phase of run(), or "api"
    agent_name,       \* self.agent_name, fixes the runner subclass
    priorRun,         \* history: the path held an earlier run's files at the start
    raised,           \* exception propagating out of the current call
    setupFailed,      \* history: setup_workspace raised in this run
    configWrites,     \* history: configuration files written
    dir_exists,       \* self.work_dir exists
    dir_files,        \* named files inside self.work_dir
    py_files,         \* *.py files inside self.work_dir
    log_process,      \* self.log_process: "None" or "Popen"
    server_log_file,  \* self.server_log_file: "unset", "open" or "closed"
    captureProc,      \* the lms log stream process
    captureSig,       \* signal sent to it and not yet acted on
    termSent,         \* history: SIGTERMs sent
    killSent,         \* history: SIGKILLs sent
    captureSpawns,    \* history: capture processes spawned
    startCalls,       \* history: start_server_logger calls
    stopPc,           \* position inside stop_server_logger
    waited,           \* seconds elapsed inside wait(timeout=2)
    stopCalls,        \* history: stop_server_logger calls that returned
    lastCall,         \* the logger method that returned last
    agentProc,        \* the agent process
    agentStdout,      \* the agent still holds its stdout pipe open
    returncode,       \* process.returncode
    pipe,             \* lines written by the agent, not yet read
    console,          \* lines echoed to sys.stdout
    transcript,       \* content of CHAT_SESSION.TXT
    log_file,         \* the transcript handle: "unset", "open" or "closed"
    agentSpawns,      \* history: agent processes spawned
    pending,          \* scripts the post-run loop has still to visit
    output_txt,       \* content of OUTPUT.TXT
    artifactSpawns,   \* history: script processes spawned
    attempted,        \* history: how often the loop attempted each script
    alive,            \* script processes spawned by the loop and not yet reaped
    reportGenerated,  \* summary.html was written
    log,              \* content of SERVER.LOG: a sequence of lines
    mpc,              \* position inside the log mining of the report step
    usage,            \* get_token_usage: the usage dict
    idx,              \* get_prompt_processing_time: lines consumed by the loop
    in_block,         \* its local in_block
    block_start_time, \* its local block_start_time (NoneTs for None)
    last_timestamp,   \* its local last_timestamp (NoneTs for None)
    total_duration    \* its local total_duration, the value it returns

runVars == <<pc, agent_name, priorRun, raised, setupFailed, configWrites>>
wsVars == <<dir_exists, dir_files, py_files>>
loggerVars == <<log_process, server_log_file, captureProc, captureSig,
                termSent, killSent, captureSpawns, startCalls>>
stopVars == <<stopPc, waited, stopCalls, lastCall>>
agentVars == <<agentProc, agentStdout, returncode, pipe, console, transcript,
               log_file, agentSpawns>>
loopVars == <<pending, artifactSpawns, attempted, alive, reportGenerated>>
postVars == <<output_txt, loopVars>>
mineVars == <<log, mpc, usage, idx, in_block, block_start_time, last_timestamp,
              total_duration>>
vars == <<runVars, wsVars, loggerVars, stopVars, agentVars, postVars, mineVars>>

\* -------------------------------------------------- SERVER.LOG contents
\* A line is described by what the two parsers look at:
\*   ts      the digits of a leading "[YYYY-MM-DD HH:MM:SS]" as <<HH, MM, SS>>
\*           (all lines carry the same date), NoneTs when ts_pattern does not
\*           match the start of the line;
\*   marker  the line contains "Prompt processing progress";
\*   key     the line holds the text "usage": followed by an opening brace;
\*   fields  <<p, c, t>> when the line holds the three integer fields
\*           "prompt_tokens", "completion_tokens", "total_tokens" in this
\*           order between braces, NoFields otherwise.
NoneTs == <<>>
NoFields == <<>>
TimeStamps == {<<18, 10, 43>>, <<18, 10, 46>>, <<18, 11, 2>>}
\* Matches ts_pattern (two digits each) and is no time of day.
BadStamp == <<25, 10, 43>>
UsageValues == {<<10, 5, 15>>, <<1, 2, 4>>}

Line(ts, marker, key, fields) ==
    [ts |-> ts, marker |-> marker, key |-> key, fields |-> fields]

DurationLines ==
    {Line(ts, m, FALSE, NoFields) :
        ts \in {NoneTs, BadStamp} \cup TimeStamps, m \in BOOLEAN}

TokenLines ==
    {Line(NoneTs, FALSE, k, f) : k \in BOOLEAN, f \in {NoFields} \cup UsageValues}

SeqsUpTo(S, n) == UNION {[1 .. k -> S] : k \in 0 .. n}

\* The log of the example: a marker line, a later line "done", and the
\* record {"prompt_tokens":10,"completion_tokens":5,"total_tokens":15} written
\* without and with the leading "usage": key.
ExampleLog ==
    << Line(<<18, 10, 43>>, TRUE, FALSE, NoFields),
       Line(<<18, 10, 46>>, FALSE, FALSE, NoFields),
       Line(NoneTs, FALSE, FALSE, <<10, 5, 15>>) >>

ExampleLogKeyed ==
    << Line(<<18, 10, 43>>, TRUE, FALSE, NoFields),
       Line(<<18, 10, 46>>, FALSE, FALSE, NoFields),
       Line(NoneTs, FALSE, TRUE, <<10, 5, 15>>) >>

MinedLogs ==
    SeqsUpTo(DurationLines, MaxLogLen) \cup SeqsUpTo(TokenLines, MaxLogLen)
        \cup {ExampleLog, ExampleLogKeyed}

\* ------------------------------------------------------- get_token_usage
ZeroUsage == [prompt_tokens |-> 0, completion_tokens |-> 0, total_tokens |-> 0]

\* The pattern needs the "usage": key, the brace and the three fields.
\* (variant: the key is not required)
PatternMatchesKeyless(line) == line.fields # NoFields

PatternMatches(line) == line.key /\ line.fields # NoFields

\* pattern.findall(content): the matches in document order.
RECURSIVE Findall(_)
Findall(content) ==
    IF content = <<>> THEN <<>>
    ELSE IF PatternMatches(Head(content))
            THEN <<Head(content).fields>> \o Findall(Tail(content))
            ELSE Findall(Tail(content))

\* for match in matches: the three counters are increased independently.
\* (variant: the total is derived from the other two fields)
RECURSIVE AccumulateDerivedTotal(_, _)
AccumulateDerivedTotal(u, matches) ==
    IF matches = <<>> THEN u
    ELSE AccumulateDerivedTotal(
             [prompt_tokens |-> u.prompt_tokens + Head(matches)[1],
              completion_tokens |-> u.completion_tokens + Head(matches)[2],
              total_tokens |-> u.total_tokens + Head(matches)[1] + Head(matches)[2]],
             Tail(matches))

RECURSIVE Accumulate(_, _)
Accumulate(u, matches) ==
    IF matches = <<>> THEN u
    ELSE Accumulate([prompt_tokens |-> u.prompt_tokens + Head(matches)[1],
                     completion_tokens |-> u.completion_tokens + Head(matches)[2],
                     total_tokens |-> u.total_tokens + Head(matches)[3]],
                    Tail(matches))

GetTokenUsage(exists, content) ==
    IF ~exists THEN ZeroUsage ELSE Accumulate(ZeroUsage, Findall(content))

\* -------------------------------------------- get_prompt_processing_time
TsPatternMatch(line) == line.ts # NoneTs

\* datetime.strptime(..., "%Y-%m-%d %H:%M:%S") raises ValueError otherwise.
\* (variant: every string of the right shape is taken as a time)
ValidStampAnyDigits(ts) == TRUE

ValidStamp(ts) == ts[1] \in 0 .. 23 /\ ts[2] \in 0 .. 59 /\ ts[3] \in 0 .. 59

\* (a - b).total_seconds() for two times of the same day.
\* (variant: the seconds field is left out)
TotalSecondsWholeMinutes(a, b) == (a[1] - b[1]) * 3600 + (a[2] - b[2]) * 60

\* (variant: the operands are exchanged)
TotalSecondsReversed(a, b) ==
    (b[1] - a[1]) * 3600 + (b[2] - a[2]) * 60 + (b[3] - a[3])

TotalSeconds(a, b) == (a[1] - b[1]) * 3600 + (a[2] - b[2]) * 60 + (a[3] - b[3])

\* The locals of the loop before its first iteration.
LoopStart ==
    [in_block |-> FALSE, block_start_time |-> NoneTs, last_timestamp |-> NoneTs,
     total_duration |-> 0]

\* One iteration of "for line in lines" on the locals st.
\* (variant: every marker line restarts the block)
LoopBodyRestart(st, line) ==
    IF ~TsPatternMatch(line) THEN st
    ELSE IF ~ValidStamp(line.ts) THEN st
    ELSE LET current_ts == line.ts
             seen == [st EXCEPT !.last_timestamp = current_ts]
         IN  IF line.marker
                THEN [seen EXCEPT !.in_block = TRUE,
                                  !.block_start_time = current_ts]
                ELSE IF seen.in_block
                        THEN [seen EXCEPT
                                !.total_duration =
                                    IF seen.block_start_time # NoneTs
                                       THEN @ + TotalSeconds(current_ts,
                                                             seen.block_start_time)
                                       ELSE @,
                                !.in_block = FALSE,
                                !.block_start_time = NoneTs]
                        ELSE seen

\* (variant: the closing line leaves the block open)
LoopBodyStaysOpen(st, line) ==
    IF ~TsPatternMatch(line) THEN st
    ELSE IF ~ValidStamp(line.ts) THEN st
    ELSE LET current_ts == line.ts
             seen == [st EXCEPT !.last_timestamp = current_ts]
         IN  IF line.marker
                THEN IF ~seen.in_block
                        THEN [seen EXCEPT !.in_block = TRUE,
                                          !.block_start_time = current_ts]
                        ELSE seen
                ELSE IF seen.in_block
                        THEN [seen EXCEPT
                                !.total_duration =
                                    IF seen.block_start_time # NoneTs
                                       THEN @ + TotalSeconds(current_ts,
                                                             seen.block_start_time)
                                       ELSE @]
                        ELSE seen

\* (variant: the closing line does not reset block_start_time)
LoopBodyKeepsStart(st, line) ==
    IF ~TsPatternMatch(line) THEN st
    ELSE IF ~ValidStamp(line.ts) THEN st
    ELSE LET current_ts == line.ts
             seen == [st EXCEPT !.last_timestamp = current_ts]
         IN  IF line.marker
                THEN IF ~seen.in_block
                        THEN [seen EXCEPT !.in_block = TRUE,
                                          !.block_start_time = current_ts]
                        ELSE seen
                ELSE IF seen.in_block
                        THEN [seen EXCEPT
                                !.total_duration =
                                    IF seen.block_start_time # NoneTs
                                       THEN @ + TotalSeconds(current_ts,
                                                             seen.block_start_time)
                                       ELSE @,
                                !.in_block = FALSE]
                        ELSE seen

\* (variant: a non-marker line outside a block counts the time since the
\* previous timestamp)
LoopBodyCountsIdle(st, line) ==
    IF ~TsPatternMatch(line) THEN st
    ELSE IF ~ValidStamp(line.ts) THEN st
    ELSE LET current_ts == line.ts
             seen == [st EXCEPT !.last_timestamp = current_ts]
         IN  IF line.marker
                THEN IF ~seen.in_block
                        THEN [seen EXCEPT !.in_block = TRUE,
                                          !.block_start_time = current_ts]
                        ELSE seen
                ELSE IF seen.in_block
                        THEN [seen EXCEPT
                                !.total_duration =
                                    IF seen.block_start_time # NoneTs
                                       THEN @ + TotalSeconds(current_ts,
                                                             seen.block_start_time)
                                       ELSE @,
                                !.in_block = FALSE,
                                !.block_start_time = NoneTs]
                        ELSE IF st.last_timestamp # NoneTs
                                THEN [seen EXCEPT
                                        !.total_duration =
                                            @ + TotalSeconds(current_ts,
                                                             st.last_timestamp)]
                                ELSE seen

LoopBody(st, line) ==
    IF ~TsPatternMatch(line) THEN st
    ELSE IF ~ValidStamp(line.ts) THEN st
    ELSE LET current_ts == line.ts
             seen == [st EXCEPT !.last_timestamp = current_ts]
         IN  IF line.marker
                THEN IF ~seen.in_block
                        THEN [seen EXCEPT !.in_block = TRUE,
                                          !.block_start_time = current_ts]
                        ELSE seen
                ELSE IF seen.in_block
                        THEN [seen EXCEPT
                                !.total_duration =
                                    IF seen.block_start_time # NoneTs
                                       THEN @ + TotalSeconds(current_ts,
                                                             seen.block_start_time)
                                       ELSE @,
                                !.in_block = FALSE,
                                !.block_start_time = NoneTs]
                        ELSE seen

\* "If log ends while in block": the value returned after the loop.
\* (variant: an open block is dropped)
AfterLoopDropsOpen(st) == st.total_duration

\* (variant: the second of the last line is counted in)
AfterLoopInclusive(st) ==
    IF st.in_block /\ st.block_start_time # NoneTs /\ st.last_timestamp # NoneTs
       THEN st.total_duration
                + TotalSeconds(st.last_timestamp, st.block_start_time) + 1
       ELSE st.total_duration

AfterLoop(st) ==
    IF st.in_block /\ st.block_start_time # NoneTs /\ st.last_timestamp # NoneTs
       THEN st.total_duration + TotalSeconds(st.last_timestamp, st.block_start_time)
       ELSE st.total_duration

RECURSIVE ForLoop(_, _)
ForLoop(st, lines) ==
    IF lines = <<>> THEN st ELSE ForLoop(LoopBody(st, Head(lines)), Tail(lines))

GetPromptProcessingTime(exists, lines) ==
    IF ~exists THEN 0 ELSE AfterLoop(ForLoop(LoopStart, lines))

\* No log mining is under way and none has happened.
MineIdle ==
    /\ log = <<>>
    /\ mpc = "idle"
    /\ usage = ZeroUsage
    /\ idx = 0
    /\ in_block = FALSE
    /\ block_start_time = NoneTs
    /\ last_timestamp = NoneTs
    /\ total_duration = 0

\* ------------------------------------------------------------ construction
\* AgentRunner.__init__: log_process is None, server_log_file is not set.
ObjectInit ==
    /\ agent_name \in Agents
    /\ raised = "none"
    /\ setupFailed = FALSE
    /\ configWrites = 0
    /\ log_process = "None"
    /\ server_log_file = "unset"
    /\ captureProc = "none"
    /\ captureSig = "none"
    /\ termSent = 0
    /\ killSent = 0
    /\ captureSpawns = 0
    /\ startCalls = 0
    /\ stopPc = "idle"
    /\ waited = 0
    /\ stopCalls = 0
    /\ lastCall = "none"
    /\ agentProc = "none"
    /\ agentStdout = FALSE
    /\ returncode = 0
    /\ pipe = <<>>
    /\ console = <<>>
    /\ transcript = <<>>
    /\ log_file = "unset"
    /\ agentSpawns = 0
    /\ pending = {}
    /\ artifactSpawns = 0
    /\ alive = {}
    /\ attempted = [s \in Scripts |-> 0]
    /\ reportGenerated = FALSE

\* __init__: the name of the working directory below evals/.  A model name is
\* a sequence of characters; "q" stands for the alphanumeric ones, "/" for
\* those that are dropped.
BinaryMap(agent) == IF agent = "mistral" THEN "vibe" ELSE agent

SafeChar(c) == c \in {"q", "-", "_"}

SafeModelName(model_name) == SelectSeq(model_name, SafeChar)

WorkDirName(agent, model_name, stem, headless) ==
    <<BinaryMap(agent), SafeModelName(model_name), stem>>

\* The workspace path before the run: absent, an empty directory, or the
\* directory a previous run of the same triple left behind.
OldRunFiles == {"SERVER.LOG", "CHAT_SESSION.TXT", "OUTPUT.TXT", "summary.html"}

\* One entry of OUTPUT.TXT; run tells the entries of an earlier run
\* ("previous") from those of this run ("this").
Entry(s, hasStderr, run) ==
    [script |-> s, stdout |-> TRUE, stderr |-> hasStderr, run |-> run]

\* What OUTPUT.TXT holds when an earlier run left it behind.
OldOutput == <<Entry(1, FALSE, "previous")>>

\* The content of OUTPUT.TXT once the directory is d: nothing when the file
\* is not there.
OutputIn(d, content) == IF "OUTPUT.TXT" \in d.files THEN content ELSE <<>>

Init ==
    /\ ObjectInit
    /\ MineIdle
    /\ pc = "setup_workspace"
    /\ \/ dir_exists = FALSE /\ dir_files = {} /\ py_files = {}
       \/ dir_exists = TRUE /\ dir_files = {} /\ py_files = {}
       \/ dir_exists = TRUE /\ dir_files = OldRunFiles /\ py_files = {1}
    /\ priorRun = (dir_files = OldRunFiles)
    /\ output_txt = IF "OUTPUT.TXT" \in dir_files THEN OldOutput ELSE <<>>

\* ------------------------------------------------------- setup_workspace
\* run() calls setup_workspace outside any try: an exception ends run().
RaiseFromSetupSwallowed ==
    /\ setupFailed' = TRUE
    /\ raised' = "none"
    /\ pc' = "configure_agent"

RaiseFromSetup ==
    /\ setupFailed' = TRUE
    /\ raised' = "WorkspacePreparationFailure"
    /\ pc' = "aborted"

\* The workspace path as setup_workspace sees it, with the exception (if any)
\* the call has raised so far.
WorkDir ==
    [exists |-> dir_exists, files |-> dir_files, py |-> py_files, error |-> "none"]

\* if self.work_dir.exists(): shutil.rmtree(self.work_dir)
RemoveExistingSkipped(d) == d

RemoveExisting(d) ==
    IF d.exists THEN [d EXCEPT !.exists = FALSE, !.files = {}, !.py = {}] ELSE d

\* self.work_dir.mkdir(parents=True, exist_ok=True): without exist_ok an
\* existing path raises FileExistsError, with it the directory is left alone.
ExistOk == TRUE

Mkdir(d) ==
    IF d.exists
       THEN IF ExistOk THEN d ELSE [d EXCEPT !.error = "FileExistsError"]
       ELSE [d EXCEPT !.exists = TRUE]

\* The two statements of setup_workspace when neither meets an OS error.
\* (variant: the old tree is not removed)
PreparedMkdirOnly(d) == Mkdir(d)

Prepared(d) == Mkdir(RemoveExisting(d))

SetupWorkspace ==
    /\ pc = "setup_workspace"
    /\ dir_exists' = Prepared(WorkDir).exists
    /\ dir_files' = Prepared(WorkDir).files
    /\ py_files' = Prepared(WorkDir).py
    /\ output_txt' = OutputIn(Prepared(WorkDir), output_txt)
    /\ pc' = "configure_agent"
    /\ UNCHANGED <<agent_name, priorRun, raised, setupFailed, configWrites>>
    /\ UNCHANGED <<loggerVars, stopVars, agentVars, loopVars>>
    /\ UNCHANGED mineVars

\* shutil.rmtree raises part-way: some of the old entries may already be gone.
SetupRmtreeFails ==
    /\ pc = "setup_workspace"
    /\ dir_exists
    /\ \E fs \in SUBSET dir_files, ps \in SUBSET py_files :
          /\ dir_files' = fs
          /\ py_files' = ps
          /\ output_txt' = IF "OUTPUT.TXT" \in fs THEN output_txt ELSE <<>>
    /\ dir_exists' = TRUE
    /\ RaiseFromSetup
    /\ UNCHANGED <<agent_name, priorRun, configWrites>>
    /\ UNCHANGED <<loggerVars, stopVars, agentVars, loopVars>>
    /\ UNCHANGED mineVars

\* mkdir raises after the old tree (if any) was removed.
SetupMkdirFails ==
    /\ pc = "setup_workspace"
    /\ dir_exists' = FALSE
    /\ dir_files' = {}
    /\ py_files' = {}
    /\ output_txt' = <<>>
    /\ RaiseFromSetup
    /\ UNCHANGED <<agent_name, priorRun, configWrites>>
    /\ UNCHANGED <<loggerVars, stopVars, agentVars, loopVars>>
    /\ UNCHANGED mineVars

\* ------------------------------------------------------- configure_agent
\* Only OpenCodeRunner writes a file; the base hook and VibeRunner pass.
ConfigureAgent ==
    /\ pc = "configure_agent"
    /\ IF agent_name = "opencode"
          THEN /\ dir_files' = dir_files \cup {"opencode.json"}
               /\ configWrites' = configWrites + 1
          ELSE UNCHANGED <<dir_files, configWrites>>
    /\ pc' = "start_server_logger"
    /\ UNCHANGED <<agent_name, priorRun, raised, setupFailed, dir_exists, py_files>>
    /\ UNCHANGED <<loggerVars, stopVars, agentVars, postVars>>
    /\ UNCHANGED mineVars

\* open()/json.dump raise in OpenCodeRunner.configure_agent; run() has no
\* handler around the call.
ConfigureAgentFails ==
    /\ pc = "configure_agent"
    /\ agent_name = "opencode"
    /\ raised' = "ConfigurationFailure"
    /\ pc' = "aborted"
    /\ UNCHANGED <<agent_name, priorRun, setupFailed, configWrites>>
    /\ UNCHANGED <<wsVars, loggerVars, stopVars, agentVars, postVars>>
    /\ UNCHANGED mineVars

\* --------------------------------------------------- start_server_logger
\* outcome "open_fails": open() raises; "popen_fails": the file is open and
\* Popen raises; "ok": both succeed.  Every exception is caught and printed.
StartOutcomes == {"open_fails", "popen_fails", "ok"}

StartServerLogger(outcome) ==
    /\ startCalls' = startCalls + 1
    /\ lastCall' = "start"
    /\ IF outcome = "open_fails"
          THEN UNCHANGED <<server_log_file, dir_files, log_process,
                           captureProc, captureSpawns>>
          ELSE /\ server_log_file' = "open"
               /\ dir_files' = dir_files \cup {"SERVER.LOG"}
               /\ IF outcome = "ok"
                     THEN /\ log_process' = "Popen"
                          /\ captureProc' = "running"
                          /\ captureSpawns' = captureSpawns + 1
                     ELSE UNCHANGED <<log_process, captureProc, captureSpawns>>
    /\ UNCHANGED <<captureSig, termSent, killSent>>

\* (variant: run() calls start_server_logger once more after a start)
RunStartLoggerAgain ==
    /\ pc = "start_server_logger"
    /\ \E outcome \in StartOutcomes : StartServerLogger(outcome)
    /\ pc' = IF startCalls = 0 THEN "start_server_logger" ELSE "execute_agent"
    /\ UNCHANGED <<agent_name, priorRun, raised, setupFailed, configWrites>>
    /\ UNCHANGED <<dir_exists, py_files, stopPc, waited, stopCalls>>
    /\ UNCHANGED <<agentVars, postVars>>
    /\ UNCHANGED mineVars

RunStartLogger ==
    /\ pc = "start_server_logger"
    /\ \E outcome \in StartOutcomes : StartServerLogger(outcome)
    /\ pc' = "execute_agent"
    /\ UNCHANGED <<agent_name, priorRun, raised, setupFailed, configWrites>>
    /\ UNCHANGED <<dir_exists, py_files, stopPc, waited, stopCalls>>
    /\ UNCHANGED <<agentVars, postVars>>
    /\ UNCHANGED mineVars

\* ------------------------------------------ execute_agent / _run_process
\* execute_agent reads the prompt and calls _run_process, which opens the
\* transcript with mode "w" before it spawns the agent.
ExecuteAgent ==
    /\ pc = "execute_agent"
    /\ log_file' = "open"
    /\ transcript' = <<>>
    /\ dir_files' = dir_files \cup {"CHAT_SESSION.TXT"}
    /\ pc' = "popen"
    /\ UNCHANGED <<agent_name, priorRun, raised, setupFailed, configWrites>>
    /\ UNCHANGED <<dir_exists, py_files>>
    /\ UNCHANGED <<agentProc, agentStdout, returncode, pipe, console, agentSpawns>>
    /\ UNCHANGED <<loggerVars, stopVars, postVars>>
    /\ UNCHANGED mineVars

PopenAgent ==
    /\ pc = "popen"
    /\ agentProc' = "running"
    /\ agentStdout' = TRUE
    /\ agentSpawns' = agentSpawns + 1
    /\ pc' = "stream"
    /\ UNCHANGED <<agent_name, priorRun, raised, setupFailed, configWrites>>
    /\ UNCHANGED <<returncode, pipe, console, transcript, log_file>>
    /\ UNCHANGED <<wsVars, loggerVars, stopVars, postVars>>
    /\ UNCHANGED mineVars

\* Popen raises FileNotFoundError / PermissionError.  _run_process and
\* execute_agent have no handler: the with-block closes the transcript and
\* the exception reaches the try/finally of run(), whose finally clause runs
\* stop_server_logger before the exception leaves run().
PopenAgentFailsNoFinally ==
    /\ pc = "popen"
    /\ log_file' = "closed"
    /\ raised' = "AgentLaunchFailure"
    /\ pc' = "aborted"
    /\ UNCHANGED <<agent_name, priorRun, setupFailed, configWrites>>
    /\ UNCHANGED <<agentProc, agentStdout, returncode, pipe, console, transcript,
                   agentSpawns>>
    /\ UNCHANGED <<wsVars, loggerVars, stopVars, postVars>>
    /\ UNCHANGED mineVars

PopenAgentFails ==
    /\ pc = "popen"
    /\ log_file' = "closed"
    /\ raised' = "AgentLaunchFailure"
    /\ pc' = "stop_server_logger"
    /\ UNCHANGED <<agent_name, priorRun, setupFailed, configWrites>>
    /\ UNCHANGED <<agentProc, agentStdout, returncode, pipe, console, transcript,
                   agentSpawns>>
    /\ UNCHANGED <<wsVars, loggerVars, stopVars, postVars>>
    /\ UNCHANGED mineVars

\* for line in process.stdout: echo, flush, write, flush.
\* (variant: the line goes to the transcript only)
StreamLineNoEcho ==
    /\ pc = "stream"
    /\ pipe # <<>>
    /\ transcript' = Append(transcript, <<"line", Head(pipe)>>)
    /\ pipe' = Tail(pipe)
    /\ UNCHANGED <<agentProc, agentStdout, returncode, console, log_file,
                   agentSpawns>>
    /\ UNCHANGED <<runVars, wsVars, loggerVars, stopVars, postVars>>
    /\ UNCHANGED mineVars

StreamLine ==
    /\ pc = "stream"
    /\ pipe # <<>>
    /\ console' = Append(console, Head(pipe))
    /\ transcript' = Append(transcript, <<"line", Head(pipe)>>)
    /\ pipe' = Tail(pipe)
    /\ UNCHANGED <<agentProc, agentStdout, returncode, log_file, agentSpawns>>
    /\ UNCHANGED <<runVars, wsVars, loggerVars, stopVars, postVars>>
    /\ UNCHANGED mineVars

\* The loop ends at end of file: the pipe is drained and its write end closed.
StreamEOF ==
    /\ pc = "stream"
    /\ pipe = <<>>
    /\ ~agentStdout
    /\ pc' = "wait"
    /\ UNCHANGED <<agent_name, priorRun, raised, setupFailed, configWrites>>
    /\ UNCHANGED <<wsVars, loggerVars, stopVars, agentVars, postVars>>
    /\ UNCHANGED mineVars

\* process.wait() has no timeout: it returns once the agent has exited.
ProcessWaitNoBlock ==
    /\ pc = "wait"
    /\ pc' = "classify"
    /\ UNCHANGED <<agent_name, priorRun, raised, setupFailed, configWrites>>
    /\ UNCHANGED <<wsVars, loggerVars, stopVars, agentVars, postVars>>
    /\ UNCHANGED mineVars

ProcessWait ==
    /\ pc = "wait"
    /\ agentProc = "exited"
    /\ agentProc' = "reaped"
    /\ pc' = "classify"
    /\ UNCHANGED <<agent_name, priorRun, raised, setupFailed, configWrites>>
    /\ UNCHANGED <<agentStdout, returncode, pipe, console, transcript, log_file,
                   agentSpawns>>
    /\ UNCHANGED <<wsVars, loggerVars, stopVars, postVars>>
    /\ UNCHANGED mineVars

\* The annotation written for a return code.
AnnotationPositiveOnly(rc) ==
    IF rc > 0 THEN <<"ERROR", rc>> ELSE <<"SUCCESS", 0>>

Annotation(rc) ==
    IF rc # 0 THEN <<"ERROR", rc>> ELSE <<"SUCCESS", 0>>

\* One annotation is written, the with-block closes the transcript and
\* _run_process returns (to the finally clause of run()).
Classify ==
    /\ pc = "classify"
    /\ transcript' = Append(transcript, Annotation(returncode))
    /\ log_file' = "closed"
    /\ pc' = "stop_server_logger"
    /\ UNCHANGED <<agent_name, priorRun, raised, setupFailed, configWrites>>
    /\ UNCHANGED <<agentProc, agentStdout, returncode, pipe, console, agentSpawns>>
    /\ UNCHANGED <<wsVars, loggerVars, stopVars, postVars>>
    /\ UNCHANGED mineVars

\* ------------------------------------------------------ the agent process
AgentEmit(l) ==
    /\ agentProc = "running"
    /\ agentStdout
    /\ Len(console) + Len(pipe) < MaxLines
    /\ l = Len(console) + Len(pipe) + 1
    /\ pipe' = Append(pipe, l)
    /\ UNCHANGED <<agentProc, agentStdout, returncode, console, transcript,
                   log_file, agentSpawns>>
    /\ UNCHANGED <<runVars, wsVars, loggerVars, stopVars, postVars>>
    /\ UNCHANGED mineVars

\* The agent writes a *.py file into its working directory.
AgentWriteScript(s) ==
    /\ agentProc = "running"
    /\ s \notin py_files
    /\ py_files' = py_files \cup {s}
    /\ UNCHANGED <<dir_exists, dir_files>>
    /\ UNCHANGED <<runVars, loggerVars, stopVars, agentVars, postVars>>
    /\ UNCHANGED mineVars

\* The agent closes its stdout while it keeps running.
AgentCloseStdout ==
    /\ agentProc = "running"
    /\ agentStdout
    /\ agentStdout' = FALSE
    /\ UNCHANGED <<agentProc, returncode, pipe, console, transcript, log_file,
                   agentSpawns>>
    /\ UNCHANGED <<runVars, wsVars, loggerVars, stopVars, postVars>>
    /\ UNCHANGED mineVars

AgentExit(c) ==
    /\ agentProc = "running"
    /\ agentProc' = "exited"
    /\ agentStdout' = FALSE
    /\ returncode' = c
    /\ UNCHANGED <<pipe, console, transcript, log_file, agentSpawns>>
    /\ UNCHANGED <<runVars, wsVars, loggerVars, stopVars, postVars>>
    /\ UNCHANGED mineVars

\* ---------------------------------------------------- stop_server_logger
\* Popen.terminate()/kill() poll first: a process that has already exited is
\* reaped and no signal is sent.
SendSignal(sig) ==
    IF captureProc = "running"
       THEN /\ captureSig' = sig
            /\ termSent' = IF sig = "TERM" THEN termSent + 1 ELSE termSent
            /\ killSent' = IF sig = "KILL" THEN killSent + 1 ELSE killSent
            /\ UNCHANGED captureProc
       ELSE /\ captureProc' = IF captureProc = "exited" THEN "reaped" ELSE captureProc
            /\ UNCHANGED <<captureSig, termSent, killSent>>

\* if self.log_process: terminate() and enter wait(timeout=2); otherwise go
\* straight to the file handle.
StopEnter ==
    /\ stopPc = "entry"
    /\ IF log_process # "None"
          THEN /\ SendSignal("TERM")
               /\ stopPc' = "wait"
          ELSE /\ stopPc' = "close"
               /\ UNCHANGED <<captureProc, captureSig, termSent, killSent>>
    /\ waited' = 0
    /\ UNCHANGED <<log_process, server_log_file, captureSpawns, startCalls>>
    /\ UNCHANGED <<stopCalls, lastCall>>
    /\ UNCHANGED <<runVars, wsVars, agentVars, postVars>>
    /\ UNCHANGED mineVars

\* One second passes while wait(timeout=2) is blocked on a live process.
Tick ==
    /\ stopPc = "wait"
    /\ captureProc = "running"
    /\ waited < WaitTimeout
    /\ waited' = waited + 1
    /\ UNCHANGED <<stopPc, stopCalls, lastCall>>
    /\ UNCHANGED <<runVars, wsVars, loggerVars, agentVars, postVars>>
    /\ UNCHANGED mineVars

\* wait() returns at once when the return code is already known (terminate()
\* reaped the process), and otherwise as soon as it sees the process gone.
StopWaitReturn ==
    /\ stopPc = "wait"
    /\ captureProc \in {"exited", "reaped"}
    /\ captureProc' = "reaped"
    /\ stopPc' = "clear"
    /\ waited' = 0
    /\ UNCHANGED <<log_process, server_log_file, captureSig, termSent, killSent,
                   captureSpawns, startCalls>>
    /\ UNCHANGED <<stopCalls, lastCall>>
    /\ UNCHANGED <<runVars, wsVars, agentVars, postVars>>
    /\ UNCHANGED mineVars

\* The two seconds are over: wait() raises TimeoutExpired.  The process may
\* have exited after the last poll of wait().
StopTimeoutNever ==
    /\ stopPc = "wait"
    /\ waited = WaitTimeout
    /\ captureProc # "reaped"
    /\ UNCHANGED vars

StopTimeout ==
    /\ stopPc = "wait"
    /\ waited = WaitTimeout
    /\ captureProc # "reaped"
    /\ stopPc' = "kill"
    /\ waited' = 0
    /\ UNCHANGED <<stopCalls, lastCall>>
    /\ UNCHANGED <<runVars, wsVars, loggerVars, agentVars, postVars>>
    /\ UNCHANGED mineVars

\* except subprocess.TimeoutExpired: self.log_process.kill() and nothing
\* else: the handler does not wait for the process.
StopKill ==
    /\ stopPc = "kill"
    /\ SendSignal("KILL")
    /\ stopPc' = "clear"
    /\ UNCHANGED <<log_process, server_log_file, captureSpawns, startCalls>>
    /\ UNCHANGED <<waited, stopCalls, lastCall>>
    /\ UNCHANGED <<runVars, wsVars, agentVars, postVars>>
    /\ UNCHANGED mineVars

\* self.log_process = None
StopClearForgotten ==
    /\ stopPc = "clear"
    /\ stopPc' = "close"
    /\ UNCHANGED <<waited, stopCalls, lastCall>>
    /\ UNCHANGED <<runVars, wsVars, loggerVars, agentVars, postVars>>
    /\ UNCHANGED mineVars

StopClear ==
    /\ stopPc = "clear"
    /\ log_process' = "None"
    /\ stopPc' = "close"
    /\ UNCHANGED <<server_log_file, captureProc, captureSig, termSent, killSent,
                   captureSpawns, startCalls>>
    /\ UNCHANGED <<waited, stopCalls, lastCall>>
    /\ UNCHANGED <<runVars, wsVars, agentVars, postVars>>
    /\ UNCHANGED mineVars

\* if hasattr(self, 'server_log_file') and self.server_log_file: close().
\* Closing a closed file object does nothing.  The method returns.
\* (variant: the file is closed only inside "if self.log_process")
StopCloseOnlyWithProcess ==
    /\ stopPc = "close"
    /\ server_log_file' =
          IF server_log_file # "unset" /\ captureSpawns > 0
             THEN "closed" ELSE server_log_file
    /\ stopPc' = "returned"
    /\ stopCalls' = stopCalls + 1
    /\ lastCall' = "stop"
    /\ UNCHANGED <<log_process, captureProc, captureSig, termSent, killSent,
                   captureSpawns, startCalls>>
    /\ UNCHANGED waited
    /\ UNCHANGED <<runVars, wsVars, agentVars, postVars>>
    /\ UNCHANGED mineVars

StopClose ==
    /\ stopPc = "close"
    /\ server_log_file' = IF server_log_file = "unset" THEN "unset" ELSE "closed"
    /\ stopPc' = "returned"
    /\ stopCalls' = stopCalls + 1
    /\ lastCall' = "stop"
    /\ UNCHANGED <<log_process, captureProc, captureSig, termSent, killSent,
                   captureSpawns, startCalls>>
    /\ UNCHANGED waited
    /\ UNCHANGED <<runVars, wsVars, agentVars, postVars>>
    /\ UNCHANGED mineVars

\* ---------------------------------------------------- the capture process
\* lms log stream exits on its own (the server went away, a broken pipe...).
CaptureExitSelf ==
    /\ captureProc = "running"
    /\ captureSig = "none"
    /\ captureProc' = "exited"
    /\ UNCHANGED <<log_process, server_log_file, captureSig, termSent, killSent,
                   captureSpawns, startCalls>>
    /\ UNCHANGED <<runVars, wsVars, stopVars, agentVars, postVars>>
    /\ UNCHANGED mineVars

\* It acts on SIGTERM and exits; it may also never do so.
CaptureExitOnTerm ==
    /\ captureProc = "running"
    /\ captureSig = "TERM"
    /\ captureProc' = "exited"
    /\ captureSig' = "none"
    /\ UNCHANGED <<log_process, server_log_file, termSent, killSent,
                   captureSpawns, startCalls>>
    /\ UNCHANGED <<runVars, wsVars, stopVars, agentVars, postVars>>
    /\ UNCHANGED mineVars

\* The kernel delivers SIGKILL: the process is gone some time after kill()
\* returned.
CaptureKilled ==
    /\ captureProc = "running"
    /\ captureSig = "KILL"
    /\ captureProc' = "exited"
    /\ captureSig' = "none"
    /\ UNCHANGED <<log_process, server_log_file, termSent, killSent,
                   captureSpawns, startCalls>>
    /\ UNCHANGED <<runVars, wsVars, stopVars, agentVars, postVars>>
    /\ UNCHANGED mineVars

\* ------------------------------------------------ run(): try / finally
\* finally: self.stop_server_logger()
RunFinally ==
    /\ pc = "stop_server_logger"
    /\ stopPc = "idle"
    /\ stopPc' = "entry"
    /\ UNCHANGED <<waited, stopCalls, lastCall>>
    /\ UNCHANGED <<runVars, wsVars, loggerVars, agentVars, postVars>>
    /\ UNCHANGED mineVars

\* After the finally clause a pending exception leaves run(); otherwise run()
\* goes on to the generated scripts.
\* (variant: a failed invocation is tried again)
RunAfterFinallyRetries ==
    /\ pc = "stop_server_logger"
    /\ stopPc = "returned"
    /\ stopPc' = "idle"
    /\ pc' = IF raised = "none" THEN "post_run" ELSE "execute_agent"
    /\ raised' = "none"
    /\ UNCHANGED <<agent_name, priorRun, setupFailed, configWrites>>
    /\ UNCHANGED <<waited, stopCalls, lastCall>>
    /\ UNCHANGED <<wsVars, loggerVars, agentVars, postVars>>
    /\ UNCHANGED mineVars

RunAfterFinally ==
    /\ pc = "stop_server_logger"
    /\ stopPc = "returned"
    /\ stopPc' = "idle"
    /\ pc' = IF raised = "none" THEN "post_run" ELSE "aborted"
    /\ UNCHANGED <<agent_name, priorRun, raised, setupFailed, configWrites>>
    /\ UNCHANGED <<waited, stopCalls, lastCall>>
    /\ UNCHANGED <<wsVars, loggerVars, agentVars, postVars>>
    /\ UNCHANGED mineVars

\* ------------------------------------------------- post-run script loop
\* for py_file in self.work_dir.glob("*.py")
RunGlob ==
    /\ pc = "post_run"
    /\ pending' = py_files
    /\ pc' = "post_loop"
    /\ UNCHANGED <<agent_name, priorRun, raised, setupFailed, configWrites>>
    /\ UNCHANGED <<output_txt, artifactSpawns, attempted, alive, reportGenerated>>
    /\ UNCHANGED <<wsVars, loggerVars, stopVars, agentVars>>
    /\ UNCHANGED mineVars

\* if py_file.name == "evaluate_agent.py": continue
ArtifactSkip ==
    /\ pc = "post_loop"
    /\ OwnEntryPoint \in pending
    /\ pending' = pending \ {OwnEntryPoint}
    /\ UNCHANGED <<output_txt, artifactSpawns, attempted, alive, reportGenerated>>
    /\ UNCHANGED <<runVars, wsVars, loggerVars, stopVars, agentVars>>
    /\ UNCHANGED mineVars

\* subprocess.run starts python3 on the script and blocks until the child is
\* gone.
\* (variant: the loop does not wait for the child)
ArtifactSpawnNoWait(s) ==
    /\ pc = "post_loop"
    /\ s \in pending
    /\ s # OwnEntryPoint
    /\ pending' = pending \ {s}
    /\ artifactSpawns' = artifactSpawns + 1
    /\ attempted' = [attempted EXCEPT ![s] = @ + 1]
    /\ alive' = alive \cup {s}
    /\ UNCHANGED <<output_txt, reportGenerated>>
    /\ UNCHANGED <<runVars, wsVars, loggerVars, stopVars, agentVars>>
    /\ UNCHANGED mineVars

ArtifactSpawn(s) ==
    /\ pc = "post_loop"
    /\ s \in pending
    /\ s # OwnEntryPoint
    /\ pending' = pending \ {s}
    /\ artifactSpawns' = artifactSpawns + 1
    /\ attempted' = [attempted EXCEPT ![s] = @ + 1]
    /\ alive' = alive \cup {s}
    /\ pc' = "artifact_run"
    /\ UNCHANGED <<agent_name, priorRun, raised, setupFailed, configWrites>>
    /\ UNCHANGED <<output_txt, reportGenerated>>
    /\ UNCHANGED <<wsVars, loggerVars, stopVars, agentVars>>
    /\ UNCHANGED mineVars

\* subprocess.run returns: the script exited (with any code); STDOUT and, when
\* not empty, STDERR are appended to OUTPUT.TXT (open mode "a").
ArtifactExit(s, code, hasStderr) ==
    /\ pc = "artifact_run"
    /\ s \in alive
    /\ alive' = alive \ {s}
    /\ output_txt' = Append(output_txt, Entry(s, hasStderr, "this"))
    /\ dir_files' = dir_files \cup {"OUTPUT.TXT"}
    /\ pc' = "post_loop"
    /\ UNCHANGED <<agent_name, priorRun, raised, setupFailed, configWrites>>
    /\ UNCHANGED <<dir_exists, py_files>>
    /\ UNCHANGED <<pending, artifactSpawns, attempted, reportGenerated>>
    /\ UNCHANGED <<loggerVars, stopVars, agentVars>>
    /\ UNCHANGED mineVars

\* After 300 s subprocess.run kills and reaps the script and raises
\* TimeoutExpired, which except Exception catches.
\* (variant: the exception leaves the loop and run())
ArtifactTimeoutEscapes(s) ==
    /\ pc = "artifact_run"
    /\ s \in alive
    /\ alive' = alive \ {s}
    /\ raised' = "ArtifactExecutionFailure"
    /\ pc' = "aborted"
    /\ UNCHANGED <<agent_name, priorRun, setupFailed, configWrites>>
    /\ UNCHANGED <<pending, output_txt, artifactSpawns, attempted, reportGenerated>>
    /\ UNCHANGED <<wsVars, loggerVars, stopVars, agentVars, mineVars>>

ArtifactTimeout(s) ==
    /\ pc = "artifact_run"
    /\ s \in alive
    /\ alive' = alive \ {s}
    /\ pc' = "post_loop"
    /\ UNCHANGED <<agent_name, priorRun, raised, setupFailed, configWrites>>
    /\ UNCHANGED <<pending, output_txt, artifactSpawns, attempted, reportGenerated>>
    /\ UNCHANGED <<wsVars, loggerVars, stopVars, agentVars>>
    /\ UNCHANGED mineVars

\* python3 cannot be launched: subprocess.run raises, except Exception catches.
ArtifactLaunchError(s) ==
    /\ pc = "post_loop"
    /\ s \in pending
    /\ s # OwnEntryPoint
    /\ pending' = pending \ {s}
    /\ attempted' = [attempted EXCEPT ![s] = @ + 1]
    /\ UNCHANGED <<output_txt, artifactSpawns, alive, reportGenerated>>
    /\ UNCHANGED <<runVars, wsVars, loggerVars, stopVars, agentVars>>
    /\ UNCHANGED mineVars

PostRunDone ==
    /\ pc = "post_loop"
    /\ pending = {}
    /\ pc' = "report"
    /\ UNCHANGED <<agent_name, priorRun, raised, setupFailed, configWrites>>
    /\ UNCHANGED <<wsVars, loggerVars, stopVars, agentVars, postVars>>
    /\ UNCHANGED mineVars

\* ----------------------------------------------------------------- report
\* What the capture process may have written by the time the report step
\* reads SERVER.LOG.
RunLogs == {<<>>, ExampleLogKeyed}

\* The file holds nothing unless a capture process was spawned on it.
LogAtReport ==
    IF "SERVER.LOG" \in dir_files /\ captureSpawns > 0 THEN RunLogs ELSE {<<>>}

\* metadata = {...}: the log is mined by get_token_usage and
\* get_prompt_processing_time (every collector catches its own errors).
CollectMetadata ==
    /\ pc = "report"
    /\ \E content \in LogAtReport :
          /\ log' = content
          /\ usage' = GetTokenUsage("SERVER.LOG" \in dir_files, content)
          /\ total_duration' =
                GetPromptProcessingTime("SERVER.LOG" \in dir_files, content)
    /\ mpc' = "done"
    /\ pc' = "generate_report"
    /\ UNCHANGED <<agent_name, priorRun, raised, setupFailed, configWrites>>
    /\ UNCHANGED <<idx, in_block, block_start_time, last_timestamp>>
    /\ UNCHANGED <<wsVars, loggerVars, stopVars, agentVars, postVars>>

\* generate_html_report writes summary.html from the metadata.
GenerateReport ==
    /\ pc = "generate_report"
    /\ reportGenerated' = TRUE
    /\ dir_files' = dir_files \cup {"summary.html"}
    /\ pc' = "open_report"
    /\ UNCHANGED <<agent_name, priorRun, raised, setupFailed, configWrites>>
    /\ UNCHANGED <<dir_exists, py_files>>
    /\ UNCHANGED <<pending, output_txt, artifactSpawns, attempted, alive>>
    /\ UNCHANGED <<loggerVars, stopVars, agentVars>>
    /\ UNCHANGED mineVars

\* The viewer is launched inside try/except; run() returns.
OpenReport ==
    /\ pc = "open_report"
    /\ pc' = "done"
    /\ UNCHANGED <<agent_name, priorRun, raised, setupFailed, configWrites>>
    /\ UNCHANGED <<wsVars, loggerVars, stopVars, agentVars, postVars>>
    /\ UNCHANGED mineVars

\* ------------------------------------------------------------ one run()
StopStep ==
    \/ StopEnter
    \/ StopWaitReturn
    \/ StopTimeout
    \/ StopKill
    \/ StopClear
    \/ StopClose

CaptureStep ==
    \/ CaptureExitSelf
    \/ CaptureExitOnTerm
    \/ CaptureKilled

AgentStep ==
    \/ \E l \in LineVals : AgentEmit(l)
    \/ \E s \in Scripts : AgentWriteScript(s)
    \/ AgentCloseStdout
    \/ \E c \in ExitCodes : AgentExit(c)

Next ==
    \/ SetupWorkspace
    \/ SetupRmtreeFails
    \/ SetupMkdirFails
    \/ ConfigureAgent
    \/ ConfigureAgentFails
    \/ RunStartLogger
    \/ ExecuteAgent
    \/ PopenAgent
    \/ PopenAgentFails
    \/ StreamLine
    \/ StreamEOF
    \/ ProcessWait
    \/ Classify
    \/ AgentStep
    \/ RunFinally
    \/ StopStep
    \/ Tick
    \/ CaptureStep
    \/ RunAfterFinally
    \/ RunGlob
    \/ ArtifactSkip
    \/ \E s \in Scripts : ArtifactSpawn(s)
    \/ \E s \in Scripts, code \in ExitCodes, hasStderr \in BOOLEAN :
          ArtifactExit(s, code, hasStderr)
    \/ \E s \in Scripts : ArtifactTimeout(s)
    \/ \E s \in Scripts : ArtifactLaunchError(s)
    \/ PostRunDone
    \/ CollectMetadata
    \/ GenerateReport
    \/ OpenReport

Spec == Init /\ [][Next]_vars

\* ----------------------------------- the logger methods called directly
\* A caller that holds a constructed AgentRunner with an existing workspace
\* and calls start_server_logger (once) and stop_server_logger (any number
\* of times) in any order.
LoggerInit ==
    /\ ObjectInit
    /\ output_txt = <<>>
    /\ priorRun = FALSE
    /\ MineIdle
    /\ pc = "api"
    /\ dir_exists = TRUE
    /\ dir_files = {}
    /\ py_files = {}

ApiStart ==
    /\ pc = "api"
    /\ stopPc = "idle"
    /\ startCalls = 0
    /\ \E outcome \in StartOutcomes : StartServerLogger(outcome)
    /\ UNCHANGED <<dir_exists, py_files, stopPc, waited, stopCalls>>
    /\ UNCHANGED <<runVars, agentVars, postVars>>
    /\ UNCHANGED mineVars

ApiStop ==
    /\ pc = "api"
    /\ stopPc = "idle"
    /\ stopCalls < MaxStops
    /\ stopPc' = "entry"
    /\ UNCHANGED <<waited, stopCalls, lastCall>>
    /\ UNCHANGED <<runVars, wsVars, loggerVars, agentVars, postVars>>
    /\ UNCHANGED mineVars

ApiStopReturn ==
    /\ pc = "api"
    /\ stopPc = "returned"
    /\ stopPc' = "idle"
    /\ UNCHANGED <<waited, stopCalls, lastCall>>
    /\ UNCHANGED <<runVars, wsVars, loggerVars, agentVars, postVars>>
    /\ UNCHANGED mineVars

LoggerNext ==
    \/ ApiStart
    \/ ApiStop
    \/ StopStep
    \/ Tick
    \/ CaptureStep
    \/ ApiStopReturn

LoggerSpec == LoggerInit /\ [][LoggerNext]_vars

\* The caller's thread keeps executing and time keeps passing; nothing is
\* assumed about the capture process reacting to SIGTERM.
LoggerLive ==
    /\ LoggerInit
    /\ [][LoggerNext]_vars
    /\ WF_vars(StopStep)
    /\ WF_vars(ApiStopReturn)
    /\ WF_vars(Tick)

\* --------------------------------------- setup_workspace called directly
\* A caller that calls setup_workspace twice in a row on a path that is
\* absent or holds an arbitrary set of files.
WorkspaceFiles == OldRunFiles \cup {"opencode.json"}

WorkspaceInit ==
    /\ ObjectInit
    /\ MineIdle
    /\ agent_name = "gemini"
    /\ pc = "ws_api"
    /\ \/ dir_exists = FALSE /\ dir_files = {} /\ py_files = {}
       \/ /\ dir_exists = TRUE
          /\ dir_files \in SUBSET WorkspaceFiles
          /\ py_files \in SUBSET Scripts
    /\ priorRun = (dir_files # {} \/ py_files # {})
    /\ output_txt = IF "OUTPUT.TXT" \in dir_files THEN OldOutput ELSE <<>>

ApiSetup ==
    /\ pc \in {"ws_api", "ws_once"}
    /\ dir_exists' = Prepared(WorkDir).exists
    /\ dir_files' = Prepared(WorkDir).files
    /\ py_files' = Prepared(WorkDir).py
    /\ output_txt' = OutputIn(Prepared(WorkDir), output_txt)
    /\ raised' = Prepared(WorkDir).error
    /\ pc' = IF pc = "ws_api" THEN "ws_once" ELSE "ws_twice"
    /\ UNCHANGED <<agent_name, priorRun, setupFailed, configWrites>>
    /\ UNCHANGED <<loggerVars, stopVars, agentVars, loopVars, mineVars>>

WorkspaceNext == ApiSetup

WorkspaceSpec == WorkspaceInit /\ [][WorkspaceNext]_vars

\* ------------------------------ the log mining functions called directly
\* A caller that hands one SERVER.LOG (or the path of a file that does not
\* exist) to get_token_usage and then to get_prompt_processing_time, as the
\* report step does; the for-loop of the latter is taken line by line.
MiningInit ==
    /\ ObjectInit
    /\ output_txt = <<>>
    /\ priorRun = FALSE
    /\ agent_name = "gemini"
    /\ pc = "mining"
    /\ dir_exists = TRUE
    /\ py_files = {}
    /\ \/ dir_files = {} /\ log = <<>>
       \/ dir_files = {"SERVER.LOG"} /\ log \in MinedLogs
    /\ mpc = "tokens"
    /\ usage = ZeroUsage
    /\ idx = 0
    /\ in_block = FALSE
    /\ block_start_time = NoneTs
    /\ last_timestamp = NoneTs
    /\ total_duration = 0

MineTokens ==
    /\ pc = "mining"
    /\ mpc = "tokens"
    /\ usage' = GetTokenUsage("SERVER.LOG" \in dir_files, log)
    /\ mpc' = "prompt_time"
    /\ UNCHANGED <<log, idx, in_block, block_start_time, last_timestamp,
                   total_duration>>
    /\ UNCHANGED <<runVars, wsVars, loggerVars, stopVars, agentVars, postVars>>

\* if not log_path.exists(): return 0.0; otherwise the locals are set up.
MineEnter ==
    /\ pc = "mining"
    /\ mpc = "prompt_time"
    /\ mpc' = IF "SERVER.LOG" \in dir_files THEN "loop" ELSE "done"
    /\ idx' = 0
    /\ in_block' = LoopStart.in_block
    /\ block_start_time' = LoopStart.block_start_time
    /\ last_timestamp' = LoopStart.last_timestamp
    /\ total_duration' = LoopStart.total_duration
    /\ UNCHANGED <<log, usage>>
    /\ UNCHANGED <<runVars, wsVars, loggerVars, stopVars, agentVars, postVars>>

Locals ==
    [in_block |-> in_block, block_start_time |-> block_start_time,
     last_timestamp |-> last_timestamp, total_duration |-> total_duration]

MineLine ==
    /\ pc = "mining"
    /\ mpc = "loop"
    /\ idx < Len(log)
    /\ LET st == LoopBody(Locals, log[idx + 1])
       IN  /\ in_block' = st.in_block
           /\ block_start_time' = st.block_start_time
           /\ last_timestamp' = st.last_timestamp
           /\ total_duration' = st.total_duration
    /\ idx' = idx + 1
    /\ UNCHANGED <<log, mpc, usage>>
    /\ UNCHANGED <<runVars, wsVars, loggerVars, stopVars, agentVars, postVars>>

\* The loop is over: an open block is closed and the total is returned.
MineReturn ==
    /\ pc = "mining"
    /\ mpc = "loop"
    /\ idx = Len(log)
    /\ total_duration' = AfterLoop(Locals)
    /\ mpc' = "done"
    /\ UNCHANGED <<log, usage, idx, in_block, block_start_time, last_timestamp>>
    /\ UNCHANGED <<runVars, wsVars, loggerVars, stopVars, agentVars, postVars>>

MiningNext ==
    \/ MineTokens
    \/ MineEnter
    \/ MineLine
    \/ MineReturn

MiningSpec == MiningInit /\ [][MiningNext]_vars

\* ================================================================ claims
\* run() has left the try/finally around execute_agent.
PastStop ==
    pc \in {"post_run", "post_loop", "artifact_run", "report", "generate_report",
           "open_report", "done"}

\* C1: a run whose workspace preparation succeeded does not end before the
\* report is generated, whatever else fails (capture start, configuration,
\* agent launch, agent exit code, generated scripts).
C1_ReportUnlessSetupFailed ==
    (pc \in {"done", "aborted"} /\ ~setupFailed) => reportGenerated

\* C2: when the agent executable cannot be launched, the invocation returns
\* normally (nothing is raised), so that run() goes on to the report.
C2_LaunchFailureReturned ==
    (log_file = "closed" /\ agentSpawns = 0) => raised = "none"

\* C3: once start_server_logger has been called, run() neither reaches the
\* post-run phase nor ends (normally or by the exception of execute_agent)
\* before stop_server_logger has run to completion: the handle is cleared,
\* the capture file is not open, a spawned capture was signalled or reaped.
C3_StopBeforeLeaving ==
    (PastStop \/ (pc = "aborted" /\ startCalls > 0)) =>
        /\ stopCalls >= 1
        /\ log_process = "None"
        /\ server_log_file # "open"
        /\ captureSpawns > 0 => (termSent > 0 \/ captureProc = "reaped")

C3_Witness ==
    /\ pc = "aborted"
    /\ raised = "AgentLaunchFailure"
    /\ captureSpawns = 1
    /\ stopCalls = 1

C5_StopIdempotentTotal ==
    /\ [](raised = "none")
    /\ [](termSent <= 1 /\ killSent <= 1)
    /\ [][(lastCall = "stop" /\ stopPc # "idle") =>
             UNCHANGED <<log_process, server_log_file, termSent, killSent>>]_vars
    /\ [][(startCalls = 0 /\ stopPc # "idle") =>
             UNCHANGED <<log_process, server_log_file, termSent, killSent>>]_vars

C5_Witness ==
    /\ stopCalls = 2
    /\ stopPc = "idle"
    /\ termSent = 1
    /\ killSent = 1

\* C6: every call of stop_server_logger returns; the wait lasts at most
\* WaitTimeout seconds; after the kill there is no further wait.
C6_StopAlwaysReturns ==
    /\ (stopPc = "entry") ~> (stopPc = "returned")
    /\ [](waited <= WaitTimeout)
    /\ [][stopPc = "kill" => stopPc' \in {"kill", "clear"}]_vars
    /\ [][stopPc = "clear" => stopPc' \in {"clear", "close"}]_vars

C6_Witness ==
    /\ stopPc = "returned"
    /\ killSent = 1
    /\ captureProc = "running"

\* C7: once run() is past the stop phase, the capture process is not running.
C7_CaptureDeadAfterStop ==
    PastStop => captureProc # "running"

\* C8: when _run_process has returned for an agent that was launched and
\* exited, nothing was raised and the transcript is exactly the streamed
\* lines, all of them, followed by one annotation: SUCCESS for return code 0,
\* ERROR carrying the code for any other.
C8_OneAnnotationByExitCode ==
    (log_file = "closed" /\ agentSpawns = 1) =>
        /\ raised = "none"
        /\ pipe = <<>>
        /\ agentProc = "reaped"
        /\ transcript =
              [i \in 1 .. Len(console) |-> <<"line", console[i]>>]
              \o << IF returncode = 0 THEN <<"SUCCESS", 0>>
                                       ELSE <<"ERROR", returncode>> >>

C8_Witness ==
    /\ log_file = "closed"
    /\ agentSpawns = 1
    /\ returncode < 0
    /\ Len(transcript) = MaxLines + 1

\* C9: however the invocation ended (exit code 0, another exit code, missing
\* executable), it returned normally and the transcript is not empty.
C9_TranscriptNeverEmpty ==
    log_file = "closed" => (raised = "none" /\ Len(transcript) >= 1)

\* C10: when setup_workspace fails, run() ends there: no capture, agent or
\* script process is spawned, start_server_logger is not called and no
\* configuration file is written.
C10_NothingStartsAfterSetupFailure ==
    setupFailed =>
        /\ pc = "aborted"
        /\ raised = "WorkspacePreparationFailure"
        /\ startCalls = 0
        /\ captureSpawns = 0
        /\ agentSpawns = 0
        /\ artifactSpawns = 0
        /\ configWrites = 0

C10_Witness ==
    /\ setupFailed
    /\ pc = "aborted"
    /\ dir_exists
    /\ agent_name = "opencode"

\* C11: when the removal of the old tree fails inside setup_workspace, the
\* workspace is left either as the old tree or as a fresh empty directory,
\* never as something in between.
C11_NoPartialState ==
    [][(pc = "setup_workspace" /\ pc' = "aborted" /\ dir_exists /\ dir_exists')
          => \/ dir_files' = dir_files /\ py_files' = py_files
             \/ dir_files' = {} /\ py_files' = {}]_vars

\* C12: whatever the path held before (nothing, an empty directory, any
\* files), after one call of setup_workspace and again after a second call
\* made right after it the path is an existing empty directory and no
\* exception was raised.
C12_SetupIdempotent ==
    pc \in {"ws_once", "ws_twice"}
        => (dir_exists /\ dir_files = {} /\ py_files = {} /\ raised = "none")

\* The second call has returned: it met the directory the first call made.
C12_Witness == pc = "ws_twice" /\ dir_exists /\ dir_files = {} /\ raised = "none"

\* ---------------------------------------------- claims on the log mining
\* The lines get_prompt_processing_time does not ignore, in file order.
IsTimestamped(line) == line.ts # NoneTs /\ ValidStamp(line.ts)

Timestamped(lines) == SelectSeq(lines, IsTimestamped)

SecondsOfDay(ts) == ts[1] * 3600 + ts[2] * 60 + ts[3]

\* get_prompt_processing_time has returned for a file that exists.
TimeReturned == pc = "mining" /\ mpc = "done" /\ "SERVER.LOG" \in dir_files

\* In f the marker lines are exactly the lines i .. j.
OnlyBlock(f, i, j) ==
    /\ i <= j
    /\ \A k \in 1 .. Len(f) : f[k].marker <=> (i <= k /\ k <= j)

\* C13: when the marker lines of a log are one contiguous run of timestamped
\* lines starting at T0 and the first timestamped line after it is at
\* T1 > T0, get_prompt_processing_time returns T1 - T0, whatever the number
\* and the timestamps of the marker lines after the first.
C13_SingleBlockDuration ==
    TimeReturned =>
        LET f == Timestamped(log)
        IN  \A i, j \in 1 .. Len(f) :
                (/\ OnlyBlock(f, i, j)
                 /\ j < Len(f)
                 /\ SecondsOfDay(f[j + 1].ts) > SecondsOfDay(f[i].ts))
                    => total_duration =
                           SecondsOfDay(f[j + 1].ts) - SecondsOfDay(f[i].ts)

\* A block of two marker lines with different timestamps, closed later than
\* it started.
C13_Witness ==
    /\ TimeReturned
    /\ LET f == Timestamped(log)
       IN  /\ Len(f) = 3
           /\ OnlyBlock(f, 1, 2)
           /\ f[2].ts # f[1].ts
           /\ SecondsOfDay(f[3].ts) > SecondsOfDay(f[1].ts)
           /\ total_duration = SecondsOfDay(f[3].ts) - SecondsOfDay(f[1].ts)

\* The first lines of the marker blocks of f.
BlockStarts(f) ==
    {i \in 1 .. Len(f) : f[i].marker /\ (i = 1 \/ ~f[i - 1].marker)}

\* The block that starts at i is closed by a line of f.
IsClosed(f, i) == \E j \in (i + 1) .. Len(f) : ~f[j].marker

\* The line that closes the block starting at i: the first non-marker line
\* after i.
CloseOf(f, i) ==
    CHOOSE j \in (i + 1) .. Len(f) :
        ~f[j].marker /\ \A k \in i .. (j - 1) : f[k].marker

BlockDuration(f, i) == SecondsOfDay(f[CloseOf(f, i)].ts) - SecondsOfDay(f[i].ts)

RECURSIVE SumBlocks(_, _)
SumBlocks(f, starts) ==
    IF starts = {} THEN 0
    ELSE LET i == CHOOSE x \in starts : TRUE
         IN  BlockDuration(f, i) + SumBlocks(f, starts \ {i})

\* C14: when every marker block of a log is closed by a timestamped
\* non-marker line, get_prompt_processing_time returns the sum over the
\* blocks of (timestamp of the closing line - timestamp of the first marker
\* line), each block counted once.
C14_ClosedBlocksSum ==
    TimeReturned =>
        LET f == Timestamped(log)
        IN  (\A i \in BlockStarts(f) : IsClosed(f, i))
                => total_duration = SumBlocks(f, BlockStarts(f))

\* Two closed blocks, each of them longer than zero seconds.
C14_Witness ==
    /\ TimeReturned
    /\ LET f == Timestamped(log)
       IN  /\ Cardinality(BlockStarts(f)) = 2
           /\ \A i \in BlockStarts(f) : IsClosed(f, i) /\ BlockDuration(f, i) > 0
           /\ total_duration = SumBlocks(f, BlockStarts(f))

\* The first line of the last block of f.
LastStart(f) == CHOOSE i \in BlockStarts(f) : \A k \in BlockStarts(f) : k <= i

\* C15: when the last timestamped line of a log is a marker line, the open
\* block contributes (timestamp of that last line - timestamp of the block's
\* first line), on top of the durations of the closed blocks before it.
C15_OpenBlockClosedAtEnd ==
    TimeReturned =>
        LET f == Timestamped(log)
        IN  (f # <<>> /\ f[Len(f)].marker)
                => total_duration =
                       SumBlocks(f, BlockStarts(f) \ {LastStart(f)})
                         + (SecondsOfDay(f[Len(f)].ts)
                              - SecondsOfDay(f[LastStart(f)].ts))

\* A closed block followed by an open block of two marker lines, the last of
\* them later than the first.
C15_Witness ==
    /\ TimeReturned
    /\ LET f == Timestamped(log)
       IN  /\ Len(f) = 4
           /\ f[1].marker /\ ~f[2].marker /\ f[3].marker /\ f[4].marker
           /\ SecondsOfDay(f[2].ts) > SecondsOfDay(f[1].ts)
           /\ SecondsOfDay(f[4].ts) > SecondsOfDay(f[3].ts)
           /\ total_duration = (SecondsOfDay(f[2].ts) - SecondsOfDay(f[1].ts))
                                 + (SecondsOfDay(f[4].ts) - SecondsOfDay(f[3].ts))

\* A usage record of the documented form: "usage": { "prompt_tokens": P,
\* "completion_tokens": C, "total_tokens": T }.
WellFormedRecord(line) == line.key /\ line.fields # NoFields

Records(content) == {k \in 1 .. Len(content) : WellFormedRecord(content[k])}

\* C16 as stated: for every log without a timestamped line the duration is 0
\* and the token tally is {0,0,0}.
C16_NoTimestampAllZero ==
    (TimeReturned /\ Timestamped(log) = <<>>)
        => (total_duration = 0 /\ usage = ZeroUsage)

\* C16 amended: for every log without a timestamped line the duration is 0,
\* and the token tally is {0,0,0} when the log holds no well-formed usage
\* record either.
C16_NoTimestampZeroDuration ==
    (TimeReturned /\ Timestamped(log) = <<>>)
        => /\ total_duration = 0
           /\ Records(log) = {} => usage = ZeroUsage

\* A log of lines that all fail to parse, one of them a marker line whose
\* bracketed prefix is no valid time.
C16_Witness ==
    /\ TimeReturned
    /\ Len(log) >= 2
    /\ Timestamped(log) = <<>>
    /\ \E k \in 1 .. Len(log) : log[k].marker /\ log[k].ts = BadStamp
    /\ total_duration = 0
    /\ usage = ZeroUsage

\* get_token_usage has just returned for a file that exists.
TokensReturned == pc = "mining" /\ mpc = "prompt_time" /\ "SERVER.LOG" \in dir_files

RECURSIVE SumField(_, _, _)
SumField(content, ks, n) ==
    IF ks = {} THEN 0
    ELSE LET k == CHOOSE x \in ks : TRUE
         IN  content[k].fields[n] + SumField(content, ks \ {k}, n)

Permuted(content, sigma) == [k \in 1 .. Len(content) |-> content[sigma[k]]]

\* C17: get_token_usage returns the three sums of the fields of the
\* well-formed usage records of the log, every occurrence counted; the same
\* value is returned for the lines in any other order and for the log
\* without the lines that are no records.
C17_TallyIsSumOfRecords ==
    TokensReturned =>
        /\ usage = [prompt_tokens |-> SumField(log, Records(log), 1),
                    completion_tokens |-> SumField(log, Records(log), 2),
                    total_tokens |-> SumField(log, Records(log), 3)]
        /\ Records(log) # {} =>
              \A sigma \in Permutations(1 .. Len(log)) :
                  GetTokenUsage(TRUE, Permuted(log, sigma)) = usage
        /\ GetTokenUsage(TRUE, SelectSeq(log, WellFormedRecord)) = usage

\* Three records, two of them equal, with a line of other text in between.
C17_Witness ==
    /\ TokensReturned
    /\ Len(log) = 4
    /\ Records(log) = {1, 3, 4}
    /\ log[1].fields = log[3].fields
    /\ log[4].fields # log[1].fields
    /\ usage.total_tokens = 2 * log[1].fields[3] + log[4].fields[3]

\* C18: a run whose log capture failed to start (no capture process was
\* spawned) ends with the report generated, and the report carries zero
\* telemetry: tally {0,0,0} and duration 0.
C18_ReportWithZeroTelemetry ==
    (pc \in {"done", "aborted"} /\ startCalls = 1 /\ captureSpawns = 0)
        => (reportGenerated /\ usage = ZeroUsage /\ total_duration = 0)

\* C19 as stated: for the example log, whose last line is the record
\* {"prompt_tokens":10,"completion_tokens":5,"total_tokens":15}, the duration
\* is 3 seconds and the tally is {10,5,15}.
C19_ExampleAsWritten ==
    (TimeReturned /\ log = ExampleLog)
        => /\ total_duration = 3
           /\ usage = [prompt_tokens |-> 10, completion_tokens |-> 5,
                       total_tokens |-> 15]

\* C19 amended: for the example log with the record written as
\* "usage": {"prompt_tokens":10,"completion_tokens":5,"total_tokens":15} the
\* duration is 3 seconds and the tally is {10,5,15}; without the "usage": key
\* the duration is 3 seconds and the tally is {0,0,0}.
C19_ExampleWithUsageKey ==
    /\ (TimeReturned /\ log = ExampleLogKeyed)
          => /\ total_duration = 3
             /\ usage = [prompt_tokens |-> 10, completion_tokens |-> 5,
                         total_tokens |-> 15]
    /\ (TimeReturned /\ log = ExampleLog)
          => (total_duration = 3 /\ usage = ZeroUsage)

C19_Witness ==
    /\ TimeReturned
    /\ log = ExampleLogKeyed
    /\ idx = 3
    /\ total_duration = 3
    /\ usage.total_tokens = 15

\* C20: in the post-run loop no script is attempted twice; once the loop has
\* attempted a script, whatever the outcome (exit, timeout, launch error),
\* run() is not left by an exception; when the loop is over every discovered
\* script other than evaluate_agent.py has been attempted exactly once, and
\* the run ends with the report generated.
C20_ArtifactFailureConfined ==
    /\ \A s \in Scripts : attempted[s] <= 1
    /\ (\E s \in Scripts : attempted[s] > 0)
          => pc \in {"post_loop", "artifact_run", "report", "generate_report",
                    "open_report", "done"}
    /\ pc \in {"report", "generate_report", "open_report", "done"}
          => \A s \in py_files \ {OwnEntryPoint} : attempted[s] = 1
    /\ pc = "done" => reportGenerated

\* Two scripts were discovered; one could not be launched, the other ran and
\* its output was recorded; the report was generated.
C20_Witness ==
    /\ pc = "done"
    /\ reportGenerated
    /\ py_files \ {OwnEntryPoint} = {1, 2}
    /\ attempted[1] = 1
    /\ attempted[2] = 1
    /\ artifactSpawns = 1
    /\ Len(output_txt) = 1

\* C21: when start_server_logger fails (open() or Popen raised, no capture
\* process exists), nothing is raised out of run(): the agent invocation is
\* executed, stop_server_logger is called and returns, and the run ends with
\* the post-run loop done and the report generated.
C21_StartFailureNotFatal ==
    (pc \in {"done", "aborted"} /\ startCalls = 1 /\ captureSpawns = 0) =>
        /\ raised = "none"
        /\ log_file = "closed"
        /\ stopCalls = 1
        /\ pending = {}
        /\ reportGenerated

\* Capture processes that were spawned and have not exited: each of them
\* holds SERVER.LOG as its stdout.
CaptureWriters ==
    captureSpawns - (IF captureProc \in {"exited", "reaped"} THEN 1 ELSE 0)

\* Positions of run() inside the with-block of _run_process.
InRunProcess == pc \in {"popen", "stream", "wait", "classify"}

\* C22: at every point of a run SERVER.LOG has at most one writer, a capture
\* process, and the transcript has at most one, the streamer of _run_process:
\* never two live capture processes; the transcript is opened once, by
\* _run_process, never while it is open and never again after it was closed;
\* and its content changes only in steps of _run_process that hold it open.
C22_SingleWriter ==
    /\ [](CaptureWriters <= 1)
    /\ [](log_file = "open" <=> InRunProcess)
    /\ [][/\ (log_file' = "open" /\ log_file # "open") =>
                (log_file = "unset" /\ pc = "execute_agent")
          /\ transcript' # transcript =>
                (log_file = "open" /\ pc \in {"stream", "classify"})]_vars

C22_Witness ==
    /\ captureProc = "running"
    /\ CaptureWriters = 1
    /\ log_file = "open"
    /\ Len(transcript) = MaxLines

\* A line without a parseable leading timestamp: no bracketed prefix, or a
\* prefix of the right shape that is no date and time.
Unparseable(line) == line.ts = NoneTs \/ line.ts = BadStamp

Parseable(line) == ~Unparseable(line)

\* C23: in get_prompt_processing_time an iteration on a line without a
\* parseable timestamp changes none of the locals (in_block, block_start_time,
\* last_timestamp, total_duration), marker text or not, and the loop goes on
\* with the next line; the value returned is the value returned for the file
\* without such lines.
C23_UnparseableLineIgnored ==
    /\ [][(mpc = "loop" /\ idx < Len(log) /\ Unparseable(log[idx + 1])) =>
            /\ mpc' = "loop"
            /\ idx' = idx + 1
            /\ in_block' = in_block
            /\ block_start_time' = block_start_time
            /\ last_timestamp' = last_timestamp
            /\ total_duration' = total_duration]_vars
    /\ [](TimeReturned =>
            total_duration =
                GetPromptProcessingTime(TRUE, SelectSeq(log, Parseable)))

\* A block is open while a line of the right shape and no time (not a marker
\* line) and a marker line without prefix are read; the next parseable line
\* closes the block.
C23_Witness ==
    /\ TimeReturned
    /\ Len(log) = 4
    /\ IsTimestamped(log[1]) /\ log[1].marker
    /\ log[2].ts = BadStamp /\ ~log[2].marker
    /\ log[3].ts = NoneTs /\ log[3].marker
    /\ IsTimestamped(log[4]) /\ ~log[4].marker
    /\ total_duration = SecondsOfDay(log[4].ts) - SecondsOfDay(log[1].ts)
    /\ total_duration > 0

\* The phase of run() a position belongs to, in the order of the code.
PhaseOf(p) ==
    CASE p = "setup_workspace" -> 0
      [] p = "configure_agent" -> 1
      [] p = "start_server_logger" -> 2
      [] p \in {"execute_agent", "popen", "stream", "wait", "classify"} -> 3
      [] p = "stop_server_logger" -> 4
      [] p \in {"post_run", "post_loop", "artifact_run"} -> 5
      [] p = "report" -> 6
      [] p = "generate_report" -> 7
      [] p = "open_report" -> 8
      [] p = "done" -> 9
      [] p = "aborted" -> 10

\* Every generated script found by the glob has been attempted.
AllAttempted == \A s \in py_files \ {OwnEntryPoint} : attempted[s] = 1

\* C24: the phases of run() follow each other in the order capture start,
\* agent invocation, capture stop, post-run scripts, log mining, report: a
\* step stays in its phase, enters the next one or leaves run() with an
\* exception.  No script is spawned before stop_server_logger has returned,
\* at most one script process is alive, and the log is mined only after
\* stop_server_logger has returned and every script was attempted.
C24_PhaseOrder ==
    /\ [][pc' # "aborted" =>
            PhaseOf(pc') \in {PhaseOf(pc), PhaseOf(pc) + 1}]_vars
    /\ [](PhaseOf(pc) \in 3 .. 9 => startCalls = 1)
    /\ [](PhaseOf(pc) \in 5 .. 9 =>
            (log_file = "closed" /\ stopCalls = 1 /\ stopPc = "idle"))
    /\ []((artifactSpawns > 0 \/ attempted # [s \in Scripts |-> 0]) =>
            (PhaseOf(pc) \in 5 .. 9 /\ stopCalls = 1 /\ log_process = "None"))
    /\ [](Cardinality(alive) <= 1)
    /\ [](alive # {} <=> pc = "artifact_run")
    /\ [](mpc = "done" =>
            /\ PhaseOf(pc) \in 7 .. 9
            /\ stopCalls = 1
            /\ pending = {} /\ alive = {}
            /\ AllAttempted)
    /\ [](reportGenerated => (mpc = "done" /\ PhaseOf(pc) \in 8 .. 9))

C24_Witness ==
    /\ pc = "done"
    /\ captureSpawns = 1
    /\ agentSpawns = 1
    /\ killSent = 1
    /\ artifactSpawns = MaxScripts
    /\ log = ExampleLogKeyed
    /\ reportGenerated

\* C25: the post-run loop is executed once the agent invocation is over,
\* whether the agent exited with 0, exited with another code or could not be
\* launched; every script that ran to exit has an entry in OUTPUT.TXT holding
\* both its STDOUT and its STDERR section; and an entry, once written, stays
\* where it is while later entries are appended.
C25_PostRunAfterInvocation ==
    /\ []((pc \in {"done", "aborted"} /\ log_file = "closed") =>
            (pc = "done" /\ pending = {} /\ AllAttempted))
    /\ [](\A i \in 1 .. Len(output_txt) :
            output_txt[i].run = "this" =>
                (output_txt[i].stdout /\ output_txt[i].stderr))
    /\ [][pc = "artifact_run" =>
            /\ Len(output_txt') >= Len(output_txt)
            /\ SubSeq(output_txt', 1, Len(output_txt)) = output_txt]_vars

\* Arguments of AgentRunner(agent_name, model_name, prompt_file, headless).
RunnerNames == Agents \cup {"mistral", "vibe"}

ModelNames == {<<"q">>, <<"q", "/">>, <<"q", "-">>, <<"/", "q", "_">>}

PromptStems == {"p1", "p2"}

\* C26: the name of the working directory depends on the agent, the model
\* and the prompt stem alone, so a run of the same triple meets the directory
\* of the previous one; once setup_workspace has returned none of the files
\* of the previous run is left (the directory exists and is empty, OUTPUT.TXT
\* holds nothing), and in the rest of the run OUTPUT.TXT holds entries of
\* this run only, OUTPUT.TXT and summary.html are there only once this run
\* has reached its post-run phase, and the transcript starts empty.
C26_PreviousRunDiscarded ==
    /\ [](\A a \in RunnerNames, m \in ModelNames, p \in PromptStems :
            WorkDirName(a, m, p, TRUE) = WorkDirName(a, m, p, FALSE))
    /\ [](pc = "configure_agent" =>
            (dir_exists /\ dir_files = {} /\ py_files = {} /\ output_txt = <<>>))
    /\ [](PhaseOf(pc) \in 1 .. 9 =>
            /\ \A i \in 1 .. Len(output_txt) : output_txt[i].run = "this"
            /\ dir_files \cap {"OUTPUT.TXT", "summary.html"} # {} =>
                  PhaseOf(pc) >= 5)
    /\ [][pc = "execute_agent" => transcript' = <<>>]_vars

\* A run that met the files of a previous run has ended with its own
\* OUTPUT.TXT.
C26_Witness ==
    /\ priorRun
    /\ pc = "done"
    /\ dir_files = OldRunFiles
    /\ Len(output_txt) = MaxScripts
    /\ \A i \in 1 .. Len(output_txt) : output_txt[i].run = "this"

\* C27: in one run at most one capture process and at most one agent process
\* are spawned; start_server_logger, the agent invocation, stop_server_logger
\* and each generated script are attempted at most once, whatever their
\* outcome; run() never returns to an earlier phase, a closed transcript is
\* not opened again and an exception, once raised, ends the run.
C27_NoRetry ==
    /\ [](/\ captureSpawns <= 1
          /\ agentSpawns <= 1
          /\ startCalls <= 1
          /\ stopCalls <= 1
          /\ \A s \in Scripts : attempted[s] <= 1
          /\ artifactSpawns <= Cardinality(py_files \ {OwnEntryPoint}))
    /\ [][/\ PhaseOf(pc') >= PhaseOf(pc)
          /\ log_file = "closed" => log_file' = "closed"
          /\ raised # "none" =>
                (raised' = raised /\ pc' \in {"stop_server_logger", "aborted"})]_vars

\* The capture start failed, the agent exited with an error code, one script
\* could not be launched: the run is over and none of them was repeated.
C27_Witness ==
    /\ pc = "done"
    /\ startCalls = 1 /\ captureSpawns = 0
    /\ agentSpawns = 1 /\ returncode = 1
    /\ attempted[1] = 1 /\ artifactSpawns = 0

\* The only line of the log with a parseable timestamp is a marker line.
LoneMarker ==
    /\ Len(SelectSeq(log, Parseable)) = 1
    /\ SelectSeq(log, Parseable)[1].marker

\* C28: for a log whose only timestamped line is one marker line the loop
\* ends with the block open, started at that line's timestamp, which is also
\* the last timestamp seen, and the duration returned is 0.
C28_LoneMarkerZero ==
    /\ (pc = "mining" /\ mpc = "loop" /\ idx = Len(log) /\ LoneMarker) =>
          /\ in_block
          /\ block_start_time = SelectSeq(log, Parseable)[1].ts
          /\ last_timestamp = block_start_time
          /\ total_duration = 0
    /\ (TimeReturned /\ LoneMarker) => total_duration = 0

\* The marker line stands between lines without a parseable timestamp, one
\* of them with the marker text.
C28_Witness ==
    /\ TimeReturned
    /\ LoneMarker
    /\ Len(log) = 3
    /\ log[1].ts = BadStamp
    /\ Parseable(log[2])
    /\ log[3].ts = NoneTs /\ log[3].marker
    /\ in_block
    /\ total_duration = 0

\* The lines echoed to the console as the transcript holds them.
Echoed == [i \in 1 .. Len(console) |-> <<"line", console[i]>>]

\* The lines the agent has emitted so far, in the order it emitted them.
Emitted == [i \in 1 .. Len(console) + Len(pipe) |-> i]

FileWasOpened == "SERVER.LOG" \in dir_files

\* C30: when stop_server_logger was the last of the two methods to return,
\* the file object start_server_logger opened is closed, whether the capture
\* process was spawned or Popen failed after the open, and whether the
\* process went away after SIGTERM or SIGKILL had to be sent; without a file
\* opened the attribute is still unset.  A closed file is never open again.
C30_HandleClosedAfterStop ==
    /\ [](lastCall = "stop" =>
            server_log_file = IF FileWasOpened THEN "closed" ELSE "unset")
    /\ [](FileWasOpened <=> server_log_file # "unset")
    /\ [][server_log_file = "closed" => server_log_file' = "closed"]_vars

\* The file was opened, Popen failed, stop_server_logger has returned.
C30_Witness ==
    /\ lastCall = "stop"
    /\ stopPc = "returned"
    /\ FileWasOpened
    /\ captureSpawns = 0
    /\ server_log_file = "closed"

\* The lines with a parseable timestamp among those the loop has consumed.
Seen == SelectSeq(SubSeq(log, 1, idx), Parseable)

\* C31: between two iterations of the loop of get_prompt_processing_time, and
\* after it, in_block is true exactly when block_start_time is set; while a
\* block is open the last timestamped line consumed is a marker line, whose
\* timestamp is last_timestamp, and block_start_time is no later line's
\* timestamp than that; so the amount added at end of file for an open block
\* runs from the block start to the last marker line of the block.
C31_OpenBlockEndsAtMarker ==
    /\ [](in_block <=> block_start_time # NoneTs)
    /\ [](in_block =>
            /\ Seen # <<>>
            /\ Seen[Len(Seen)].marker
            /\ last_timestamp = Seen[Len(Seen)].ts
            /\ \E k \in 1 .. Len(Seen) :
                  /\ block_start_time = Seen[k].ts
                  /\ \A j \in k .. Len(Seen) : Seen[j].marker
                  /\ k > 1 => ~Seen[k - 1].marker)
    /\ [][(mpc = "loop" /\ mpc' = "done" /\ in_block) =>
            total_duration' =
                total_duration + SecondsOfDay(Seen[Len(Seen)].ts)
                    - SecondsOfDay(block_start_time)]_vars

\* The file ends inside a block of two marker lines with different
\* timestamps that follows a non-marker line; a line without timestamp comes
\* last.
C31_Witness ==
    /\ TimeReturned
    /\ Len(log) = 4
    /\ in_block
    /\ Parseable(log[1]) /\ ~log[1].marker
    /\ Parseable(log[2]) /\ log[2].marker
    /\ Parseable(log[3]) /\ log[3].marker
    /\ block_start_time = log[2].ts
    /\ last_timestamp = log[3].ts
    /\ log[2].ts # log[3].ts
    /\ log[4].ts = NoneTs /\ ~log[4].marker

\* The lines of f with a parseable timestamp carry non-decreasing timestamps.
NonDecreasing(f) ==
    LET t == SelectSeq(f, Parseable)
    IN  \A i \in 1 .. Len(t) - 1 :
            SecondsOfDay(t[i].ts) <= SecondsOfDay(t[i + 1].ts)

\* Last minus first timestamp of f, 0 when f has no timestamped line.
Span(f) ==
    LET t == SelectSeq(f, Parseable)
    IN  IF t = <<>> THEN 0
        ELSE SecondsOfDay(t[Len(t)].ts) - SecondsOfDay(t[1].ts)

\* A block that opens at 18:11:02 and is closed by a line stamped 18:10:43.
BackwardsLog ==
    << Line(<<18, 11, 2>>, TRUE, FALSE, NoFields),
       Line(<<18, 10, 43>>, FALSE, FALSE, NoFields) >>

\* C32: for a log whose timestamped lines carry non-decreasing timestamps
\* get_prompt_processing_time returns a value between 0 and the time from the
\* first to the last timestamped line, and so does the running total at every
\* line; a negative result is returned only for a log whose timestamps
\* decrease somewhere, and it is returned for one: a block closed by an
\* earlier timestamp counts a negative amount.
C32_BoundedWhenMonotone ==
    /\ (pc = "mining" /\ mpc \in {"loop", "done"} /\ NonDecreasing(log)) =>
          (0 <= total_duration /\ total_duration <= Span(log))
    /\ (TimeReturned /\ total_duration < 0) => ~NonDecreasing(log)
    /\ GetPromptProcessingTime(TRUE, BackwardsLog) = 0 - 19

\* Two blocks inside a log of non-decreasing timestamps: the total is positive
\* and smaller than the span.
C32_Witness ==
    /\ TimeReturned
    /\ NonDecreasing(log)
    /\ Len(SelectSeq(log, Parseable)) = 4
    /\ 0 < total_duration
    /\ total_duration < Span(log)

\* Line i of f is a timestamped non-marker line read while no block is open:
\* no timestamped line precedes it, or the last one that does is no marker
\* line.
IdleAt(f, i) ==
    /\ Parseable(f[i])
    /\ ~f[i].marker
    /\ LET before == SelectSeq(SubSeq(f, 1, i - 1), Parseable)
       IN  before = <<>> \/ ~before[Len(before)].marker

\* f without the lines read while no block is open, from line i on.
RECURSIVE WithoutIdle(_, _)
WithoutIdle(f, i) ==
    IF i > Len(f) THEN <<>>
    ELSE (IF IdleAt(f, i) THEN <<>> ELSE <<f[i]>>) \o WithoutIdle(f, i + 1)

\* C33: in get_prompt_processing_time an iteration on a timestamped
\* non-marker line, entered with no block open, changes last_timestamp alone:
\* total_duration, in_block and block_start_time stay as they are; and the
\* value returned for a log is the value returned for the log without those
\* lines, wherever they stand (before the first block, after the line that
\* closed a block, after the last closed block).
C33_IdleLineIgnored ==
    /\ [][(mpc = "loop" /\ idx < Len(log) /\ ~in_block
              /\ Parseable(log[idx + 1]) /\ ~log[idx + 1].marker) =>
            /\ total_duration' = total_duration
            /\ in_block' = in_block
            /\ block_start_time' = block_start_time
            /\ last_timestamp' = log[idx + 1].ts
            /\ mpc' = "loop"]_vars
    /\ [](TimeReturned =>
            total_duration = GetPromptProcessingTime(TRUE, WithoutIdle(log, 1)))
    /\ []((pc = "mining" /\ mpc = "loop" /\ idx < Len(log)) =>
            (IdleAt(log, idx + 1) <=>
                (~in_block /\ Parseable(log[idx + 1]) /\ ~log[idx + 1].marker)))

\* Non-marker lines before the block and after the line that closed it.
C33_Witness ==
    /\ TimeReturned
    /\ Len(log) = 4
    /\ IdleAt(log, 1)
    /\ Parseable(log[2]) /\ log[2].marker
    /\ Parseable(log[3]) /\ ~log[3].marker
    /\ IdleAt(log, 4)
    /\ log[4].ts # log[3].ts
    /\ total_duration = SecondsOfDay(log[3].ts) - SecondsOfDay(log[2].ts)
    /\ total_duration > 0

====
